---- MODULE Spec2Model ----
(***************************************************************************)
(* A model of the localfile Terraform provider: the FileClient (path       *)
(* confinement, file and zip operations) over a POSIX-like filesystem, and *)
(* the txt resource, zip resource and txt data source handlers built on    *)
(* it.                                                                     *)
(*                                                                         *)
(* A Go string is modelled as a sequence of one-character strings, so that *)
(* the byte-wise prefix test of fullPath is computed as the code computes  *)
(* it: "/t/a" is << "/", "t", "/", "a" >>.                                  *)
(***************************************************************************)
EXTENDS Naturals, Sequences, FiniteSets, TLC

VARIABLES
    baseDir,    \* FileClient.BaseDir
    dirs,       \* the filesystem: the set of paths that are directories
    files,      \* the filesystem: regular files, path -> content
    wd,         \* the working directory of the provider process
    old,        \* the filesystem as it was when the last operation was invoked
    call,       \* the operation invoked last and its arguments
    ret,        \* what that operation returned
    prev,       \* the invocation before it: its call, result and filesystem
    hist,       \* a history on one path: the path and its last mutation
    txtState,   \* the Terraform state of the txt resource
    zipState,   \* the Terraform state of the zip resource
    client      \* the *FileClient the resources and the data source hold

vars == <<baseDir, dirs, files, wd, old, call, ret, prev, hist,
          txtState, zipState, client>>

(***************************************************************************)
(* Bounds of the model.                                                    *)
(***************************************************************************)
MaxLocLen == 3     \* longest location string drawn for fullPath
MaxNameLen == 2    \* longest name string drawn for fullPath
MaxZipDepth == 1   \* archives nest no deeper (an archive of an archive of ...)
MaxImportLen == 4  \* longest piece appended to the base directory as an import id

(***************************************************************************)
(* path/filepath on Unix.                                                  *)
(***************************************************************************)
Separator == "/"

Alphabet == {"/", ".", "t", "e"}

RECURSIVE StringsUpTo(_)
StringsUpTo(n) ==
    IF n = 0 THEN {<<>>}
    ELSE LET shorter == StringsUpTo(n - 1)
         IN  shorter \cup {Append(s, c) : s \in shorter, c \in Alphabet}

\* strings.Split(p, "/"): the pieces between separators, empty ones included
RECURSIVE Split(_)
Split(p) ==
    IF Len(p) = 0 THEN << <<>> >>
    ELSE LET r == Split(SubSeq(p, 1, Len(p) - 1))
             c == p[Len(p)]
         IN  IF c = Separator THEN Append(r, <<>>)
             ELSE [r EXCEPT ![Len(r)] = Append(@, c)]

\* strings.Join(elems, "/")
RECURSIVE JoinSep(_)
JoinSep(elems) ==
    IF Len(elems) = 0 THEN <<>>
    ELSE IF Len(elems) = 1 THEN elems[1]
    ELSE elems[1] \o <<Separator>> \o JoinSep(Tail(elems))

IsAbs(p) == Len(p) > 0 /\ p[1] = Separator

DotDot == <<".", ".">>

\* The element-by-element pass of filepath.Clean: drop empty and "." elements,
\* let ".." cancel the element before it, drop ".." at the root of a rooted
\* path and keep it at the start of a relative one.
RECURSIVE CleanElems(_, _, _)
CleanElems(elems, out, rooted) ==
    IF Len(elems) = 0 THEN out
    ELSE LET e == Head(elems)
             rest == Tail(elems)
         IN  IF e = <<>> \/ e = <<".">> THEN CleanElems(rest, out, rooted)
             ELSE IF e = DotDot
                  THEN IF Len(out) > 0 /\ out[Len(out)] # DotDot
                       THEN CleanElems(rest, SubSeq(out, 1, Len(out) - 1), rooted)
                       ELSE IF rooted THEN CleanElems(rest, out, rooted)
                       ELSE CleanElems(rest, Append(out, e), rooted)
             ELSE CleanElems(rest, Append(out, e), rooted)

\* filepath.Clean
Clean(p) ==
    IF Len(p) = 0 THEN <<".">>
    ELSE LET rooted == IsAbs(p)
             out == JoinSep(CleanElems(Split(p), <<>>, rooted))
         IN  IF rooted THEN <<Separator>> \o out
             ELSE IF Len(out) = 0 THEN <<".">> ELSE out

\* filepath.Join: the elements from the first non-empty one on, joined and
\* cleaned; the empty string when every element is empty
RECURSIVE Join(_)
Join(elems) ==
    IF Len(elems) = 0 THEN <<>>
    ELSE IF Head(elems) # <<>> THEN Clean(JoinSep(elems))
    ELSE Join(Tail(elems))

\* os.Getwd
Getwd == wd

\* filepath.Abs
Abs(p) == IF IsAbs(p) THEN Clean(p) ELSE Join(<<Getwd, p>>)

\* index of the last separator of p, 0 when there is none
RECURSIVE LastSep(_)
LastSep(p) ==
    IF Len(p) = 0 THEN 0
    ELSE IF p[Len(p)] = Separator THEN Len(p)
    ELSE LastSep(SubSeq(p, 1, Len(p) - 1))

\* filepath.Dir
Dir(p) == Clean(SubSeq(p, 1, LastSep(p)))

RECURSIVE TrimSeps(_)
TrimSeps(p) ==
    IF Len(p) > 0 /\ p[Len(p)] = Separator
    THEN TrimSeps(SubSeq(p, 1, Len(p) - 1))
    ELSE p

\* filepath.Base
Base(p) ==
    IF Len(p) = 0 THEN <<".">>
    ELSE LET q == TrimSeps(p)
             r == SubSeq(q, LastSep(q) + 1, Len(q))
         IN  IF Len(r) = 0 THEN <<Separator>> ELSE r

(***************************************************************************)
(* FileClient.fullPath                                                     *)
(***************************************************************************)
NoError == "nil"
ErrEscape == "path escapes base directory"

HasPrefix(s, prefix) ==
    Len(s) >= Len(prefix) /\ SubSeq(s, 1, Len(prefix)) = prefix

\* fullPath with a strict length test: it turns away the base directory itself
fullPathStrict(base, location, name) ==
    LET fullAbs == Abs(Clean(Join(<<base, location, name>>)))
        baseAbs == Abs(base)
    IN  IF Len(fullAbs) <= Len(baseAbs) \/ SubSeq(fullAbs, 1, Len(baseAbs)) # baseAbs
        THEN [path |-> <<>>, err |-> ErrEscape]
        ELSE [path |-> fullAbs, err |-> NoError]

fullPath(base, location, name) ==
    LET p == Join(<<base, location, name>>)
        full == Clean(p)
        baseAbs == Abs(base)
        fullAbs == Abs(full)
    IN  IF Len(fullAbs) < Len(baseAbs) \/ SubSeq(fullAbs, 1, Len(baseAbs)) # baseAbs
        THEN [path |-> <<>>, err |-> ErrEscape]
        ELSE [path |-> fullAbs, err |-> NoError]

(***************************************************************************)
(* File contents.  A Go string and a []byte hold the same bytes, so one    *)
(* value stands for both.  A zip archive is the sequence of its entries,   *)
(* each a name and the bytes stored under it.                              *)
(***************************************************************************)
Text(s) == [kind |-> "text", text |-> s, entries |-> <<>>]
Zip(entries) == [kind |-> "zip", text |-> "", entries |-> entries]
Entry(name, bytes) == [name |-> name, bytes |-> bytes]

\* what os.Create leaves in the file: no bytes
Empty == Text("")

\* the archive zip.Writer.Close writes when no entry was created
EmptyZip == Zip(<<>>)

RECURSIVE ZipDepth(_)
ZipDepth(c) ==
    IF c.kind = "zip" /\ Len(c.entries) > 0
    THEN 1 + ZipDepth(c.entries[1].bytes)
    ELSE 0

(***************************************************************************)
(* The filesystem, as the os package sees it.  d is the set of             *)
(* directories and f maps each regular file to its content; the parent of  *)
(* everything that exists is a directory.                                  *)
(***************************************************************************)
ENOENT == "no such file or directory"
ENOTDIR == "not a directory"
EISDIR == "is a directory"
ENOTEMPTY == "directory not empty"
EBUSY == "device or resource busy"
ErrZipDir == "zip: write to directory"

Root == <<Separator>>

\* the directory that holds the entry of the rooted, clean path p
Parent(p) == IF LastSep(p) <= 1 THEN Root ELSE SubSeq(p, 1, LastSep(p) - 1)

RECURSIVE AncestorsOrSelf(_)
AncestorsOrSelf(p) ==
    IF p = Root \/ Len(p) = 0 THEN {Root} ELSE {p} \cup AncestorsOrSelf(Parent(p))

Ancestors(p) == AncestorsOrSelf(p) \ {p}

Children(d, f, p) == {q \in (d \cup DOMAIN f) \ {p} : Parent(q) = p}

\* path resolution: what is at p, or why the lookup fails
Lookup(d, f, p) ==
    IF p \in DOMAIN f THEN "file"
    ELSE IF p \in d THEN "dir"
    ELSE IF \E a \in Ancestors(p) : a \in DOMAIN f THEN ENOTDIR
    ELSE ENOENT

Without(f, p) == [q \in DOMAIN f \ {p} |-> f[q]]
With(f, p, c) == [q \in DOMAIN f \cup {p} |-> IF q = p THEN c ELSE f[q]]

\* os.MkdirAll(path, 0o755)
MkdirAll(d, f, path) ==
    IF \E a \in AncestorsOrSelf(path) : a \in DOMAIN f
    THEN [dirs |-> d, files |-> f, err |-> ENOTDIR]
    ELSE [dirs |-> d \cup AncestorsOrSelf(path), files |-> f, err |-> NoError]

\* open(path, O_CREATE|O_TRUNC) followed by a write of c and close:
\* os.WriteFile(path, c, 0o644), and os.Create(path) with c empty
OpenTruncWrite(d, f, path, c) ==
    IF path \in d THEN [dirs |-> d, files |-> f, err |-> EISDIR]
    ELSE IF Lookup(d, f, path) = ENOTDIR
         THEN [dirs |-> d, files |-> f, err |-> ENOTDIR]
    ELSE IF Parent(path) \notin d THEN [dirs |-> d, files |-> f, err |-> ENOENT]
    ELSE [dirs |-> d, files |-> With(f, path, c), err |-> NoError]

\* os.ReadFile(path)
OsReadFile(d, f, path) ==
    LET at == Lookup(d, f, path)
    IN  IF at = "file" THEN [data |-> f[path], err |-> NoError]
        ELSE IF at = "dir" THEN [data |-> Empty, err |-> EISDIR]
        ELSE [data |-> Empty, err |-> at]

\* os.Remove(path): unlink, then rmdir
OsRemove(d, f, path) ==
    LET at == Lookup(d, f, path)
    IN  IF at = "file" THEN [dirs |-> d, files |-> Without(f, path), err |-> NoError]
        ELSE IF at = "dir"
             THEN IF path = Root THEN [dirs |-> d, files |-> f, err |-> EBUSY]
                  ELSE IF Children(d, f, path) # {}
                       THEN [dirs |-> d, files |-> f, err |-> ENOTEMPTY]
                  ELSE [dirs |-> d \ {path}, files |-> f, err |-> NoError]
        ELSE [dirs |-> d, files |-> f, err |-> at]

\* errors.Is(err, fs.ErrNotExist)
IsNotExist(err) == err = ENOENT

(***************************************************************************)
(* FileClient.WriteFile, ReadFile, Delete, CreateZipFile                   *)
(***************************************************************************)
\* WriteFile opening without O_TRUNC semantics: a file already there keeps
\* its content
WriteFileKeeping(d, f, path, data) ==
    LET made == MkdirAll(d, f, Dir(path))
    IN  IF made.err # NoError THEN made
        ELSE IF path \in DOMAIN f THEN [dirs |-> d, files |-> f, err |-> NoError]
        ELSE OpenTruncWrite(made.dirs, made.files, path, data)

WriteFile(d, f, path, data) ==
    LET dir == Dir(path)
        made == MkdirAll(d, f, dir)
    IN  IF made.err # NoError THEN made
        ELSE OpenTruncWrite(made.dirs, made.files, path, data)

\* ReadFile that opens the file and returns none of its bytes
ReadFileBlank(d, f, path) ==
    [data |-> Empty, err |-> OsReadFile(d, f, path).err]

ReadFile(d, f, path) ==
    LET r == OsReadFile(d, f, path)
    IN  IF r.err # NoError THEN [data |-> Empty, err |-> r.err]
        ELSE [data |-> r.data, err |-> NoError]

\* Delete that reports success and removes nothing
DeleteNothing(d, f, path) == [dirs |-> d, files |-> f, err |-> NoError]

Delete(d, f, path) ==
    LET r == OsRemove(d, f, path)
    IN  IF r.err # NoError /\ ~IsNotExist(r.err)
        THEN r
        ELSE [dirs |-> r.dirs, files |-> r.files, err |-> NoError]

\* a zip entry whose name ends in a separator is a directory entry: it
\* takes no bytes
IsDirEntry(name) == Len(name) > 0 /\ name[Len(name)] = Separator

CreateZipFile(d, f, zipPath, srcPath, nameInZip) ==
    LET dir == Dir(zipPath)
        made == MkdirAll(d, f, dir)
        created == OpenTruncWrite(made.dirs, made.files, zipPath, Empty)
        \* the source is opened and read after the archive file was truncated;
        \* nothing of the archive reaches the file before zw.Close flushes it
        src == OsReadFile(created.dirs, created.files, srcPath)
        opened == Lookup(created.dirs, created.files, srcPath) \in {"file", "dir"}
        closed(c, e) == [dirs |-> created.dirs,
                         files |-> With(created.files, zipPath, c),
                         err |-> e]
    IN  IF made.err # NoError THEN made
        ELSE IF created.err # NoError THEN created
        ELSE IF ~opened THEN closed(EmptyZip, src.err)
        ELSE IF src.err # NoError
             THEN closed(Zip(<<Entry(nameInZip, Empty)>>), src.err)
        ELSE IF IsDirEntry(nameInZip) /\ src.data # Empty
             THEN closed(Zip(<<Entry(nameInZip, Empty)>>), ErrZipDir)
        ELSE closed(Zip(<<Entry(nameInZip, src.data)>>), NoError)

(***************************************************************************)
(* Invocations.  call and ret record the last operation and its result,    *)
(* old the filesystem it was invoked on.                                   *)
(***************************************************************************)
Idle == [op |-> "none"]
NoRet == [err |-> NoError]
Pending == [err |-> "pending"]
NoPrev == [call |-> Idle, ret |-> NoRet]
NoHist == [path |-> <<>>, last |-> "none", data |-> Empty]

NoFiles == [q \in {} |-> Empty]

\* no resource in state
NoResource == [exists |-> FALSE]

\* the client pointer: nil until the provider hands a FileClient over
NoClient == "nil"
FileClient == "FileClient"

\* the bookkeeping of an invocation c that returned r
Returned(c, r) ==
    /\ call' = c
    /\ ret' = r
    /\ old' = [dirs |-> dirs, files |-> files]

(***************************************************************************)
(* The specification of fullPath alone: a base directory, a working        *)
(* directory, a location and a name are drawn, and one call is made.       *)
(***************************************************************************)
BaseDirs == {<<"/", "t">>, <<"/", "t", "/", "e">>}
WorkDirs == {<<"/">>, <<"/", "e">>}

PathInit ==
    /\ baseDir \in BaseDirs
    /\ dirs = {}
    /\ files = NoFiles
    /\ old = [dirs |-> {}, files |-> NoFiles]
    /\ wd \in WorkDirs
    /\ \E l \in StringsUpTo(MaxLocLen), n \in StringsUpTo(MaxNameLen) :
           call = [op |-> "fullPath", location |-> l, name |-> n]
    /\ ret = Pending
    /\ prev = NoPrev
    /\ hist = NoHist
    /\ txtState = NoResource
    /\ zipState = NoResource
    /\ client = FileClient

FullPathCall ==
    /\ call.op = "fullPath"
    /\ ret = Pending
    /\ ret' = fullPath(baseDir, call.location, call.name)
    /\ UNCHANGED <<client, baseDir, dirs, files, wd, old, call, prev, hist,
                   txtState, zipState>>

PathNext == FullPathCall

SpecPath == PathInit /\ [][PathNext]_vars

(***************************************************************************)
(* The specification of the FileClient: any sequence of WriteFile,         *)
(* ReadFile, Delete and CreateZipFile on resolved paths, starting from an  *)
(* empty base directory.                                                   *)
(***************************************************************************)
TheBase == <<"/", "t">>

ClientPaths ==
    { <<"/", "t", "/", "e">>,
      <<"/", "t", "/", "e", "/", "e">>,
      <<"/", "t", "/", "t">> }

Texts == {Text("a"), Text("b")}

EntryNames == {<<"e">>, <<"e", "/">>}

ClientInit ==
    /\ baseDir = TheBase
    /\ dirs = AncestorsOrSelf(TheBase)
    /\ files = NoFiles
    /\ old = [dirs |-> AncestorsOrSelf(TheBase), files |-> NoFiles]
    /\ wd = Root
    /\ call = Idle
    /\ ret = NoRet
    /\ prev = NoPrev
    /\ hist = NoHist
    /\ txtState = NoResource
    /\ zipState = NoResource
    /\ client = FileClient

WriteFileCall ==
    \E p \in ClientPaths, s \in Texts :
        LET r == WriteFile(dirs, files, p, s)
        IN  /\ dirs' = r.dirs
            /\ files' = r.files
            /\ Returned([op |-> "WriteFile", path |-> p, data |-> s],
                        [err |-> r.err])
            /\ UNCHANGED <<client, baseDir, wd, prev, hist, txtState, zipState>>

ReadFileCall ==
    \E p \in ClientPaths :
        LET r == ReadFile(dirs, files, p)
        IN  /\ UNCHANGED <<dirs, files>>
            /\ Returned([op |-> "ReadFile", path |-> p],
                        [err |-> r.err, data |-> r.data])
            /\ UNCHANGED <<client, baseDir, wd, prev, hist, txtState, zipState>>

DeleteCall ==
    \E p \in ClientPaths :
        LET r == Delete(dirs, files, p)
        IN  /\ dirs' = r.dirs
            /\ files' = r.files
            /\ Returned([op |-> "Delete", path |-> p], [err |-> r.err])
            /\ UNCHANGED <<client, baseDir, wd, prev, hist, txtState, zipState>>

CreateZipFileCall ==
    \E zp \in ClientPaths, sp \in ClientPaths, n \in EntryNames :
        LET r == CreateZipFile(dirs, files, zp, sp, n)
        IN  /\ zp \in DOMAIN r.files => ZipDepth(r.files[zp]) <= MaxZipDepth
            /\ dirs' = r.dirs
            /\ files' = r.files
            /\ Returned([op |-> "CreateZipFile", path |-> zp, src |-> sp,
                         entry |-> n],
                        [err |-> r.err])
            /\ UNCHANGED <<client, baseDir, wd, prev, hist, txtState, zipState>>

ClientNext ==
    \/ WriteFileCall
    \/ ReadFileCall
    \/ DeleteCall
    \/ CreateZipFileCall

SpecClient == ClientInit /\ [][ClientNext]_vars

(***************************************************************************)
(* The specification of a history on one path: the filesystem holds what   *)
(* earlier use left in the base directory, one path is picked, and         *)
(* WriteFile, ReadFile and Delete are called on it in any order.  hist     *)
(* keeps the last successful mutation of the path: "written" with the      *)
(* content (a file found there at the start was written before the history *)
(* began), "deleted", or "never".                                          *)
(***************************************************************************)
PathE == <<"/", "t", "/", "e">>
PathEE == <<"/", "t", "/", "e", "/", "e">>
PathT == <<"/", "t", "/", "t">>

Fs(d, f) == [dirs |-> d, files |-> f]

InitialFilesystems ==
    { Fs(AncestorsOrSelf(TheBase), NoFiles),
      Fs(AncestorsOrSelf(TheBase), With(NoFiles, PathT, Text("b"))),
      Fs(AncestorsOrSelf(TheBase),
         With(With(NoFiles, PathE, Text("a")), PathT, Text("b"))),
      Fs(AncestorsOrSelf(PathE), NoFiles),
      Fs(AncestorsOrSelf(PathE), With(NoFiles, PathEE, Text("b"))) }

HistPaths == {PathE, PathEE}

HistInit ==
    /\ baseDir = TheBase
    /\ wd = Root
    /\ \E fs \in InitialFilesystems, p \in HistPaths :
           /\ dirs = fs.dirs
           /\ files = fs.files
           /\ old = fs
           /\ hist = IF p \in DOMAIN fs.files
                     THEN [path |-> p, last |-> "written", data |-> fs.files[p]]
                     ELSE [path |-> p, last |-> "never", data |-> Empty]
    /\ call = Idle
    /\ ret = NoRet
    /\ prev = NoPrev
    /\ txtState = NoResource
    /\ zipState = NoResource
    /\ client = FileClient

Remember == prev' = [call |-> call, ret |-> ret, old |-> old]

HistWrite ==
    \E s \in Texts :
        LET r == WriteFile(dirs, files, hist.path, s)
        IN  /\ dirs' = r.dirs
            /\ files' = r.files
            /\ Returned([op |-> "WriteFile", path |-> hist.path, data |-> s],
                        [err |-> r.err])
            /\ Remember
            /\ hist' = IF r.err = NoError
                       THEN [hist EXCEPT !.last = "written", !.data = s]
                       ELSE hist
            /\ UNCHANGED <<client, baseDir, wd, txtState, zipState>>

HistRead ==
    LET r == ReadFile(dirs, files, hist.path)
    IN  /\ UNCHANGED <<dirs, files>>
        /\ Returned([op |-> "ReadFile", path |-> hist.path],
                    [err |-> r.err, data |-> r.data])
        /\ Remember
        /\ UNCHANGED <<client, baseDir, wd, hist, txtState, zipState>>

HistDelete ==
    LET r == Delete(dirs, files, hist.path)
    IN  /\ dirs' = r.dirs
        /\ files' = r.files
        /\ Returned([op |-> "Delete", path |-> hist.path], [err |-> r.err])
        /\ Remember
        /\ hist' = IF r.err = NoError
                   THEN [hist EXCEPT !.last = "deleted", !.data = Empty]
                   ELSE hist
        /\ UNCHANGED <<client, baseDir, wd, txtState, zipState>>

HistNext ==
    \/ HistWrite
    \/ HistRead
    \/ HistDelete

SpecHistory == HistInit /\ [][HistNext]_vars

\* the filesystem stays a tree: the parent of whatever exists is a directory,
\* and nothing is both a file and a directory
WellFormed ==
    /\ Root \in dirs
    /\ dirs \cap DOMAIN files = {}
    /\ \A p \in (dirs \cup DOMAIN files) \ {Root} : Parent(p) \in dirs

(***************************************************************************)
(* filepath.Rel, as ImportState uses it.                                   *)
(***************************************************************************)
ErrRel == "Rel: can't make the path relative"

\* the elements the loop of filepath.Rel walks over
RelElems(p) ==
    IF p = Root THEN << <<>> >> ELSE IF Len(p) = 0 THEN <<>> ELSE Split(p)

RECURSIVE CommonLen(_, _)
CommonLen(a, b) ==
    IF Len(a) > 0 /\ Len(b) > 0 /\ Head(a) = Head(b)
    THEN 1 + CommonLen(Tail(a), Tail(b))
    ELSE 0

Rel(basepath, targpath) ==
    LET cleaned == Clean(basepath)
        targ == Clean(targpath)
        base == IF cleaned = <<".">> THEN <<>> ELSE cleaned
        bE == RelElems(base)
        tE == RelElems(targ)
        k == CommonLen(bE, tE)
        up == [i \in 1..(Len(bE) - k) |-> DotDot]
        down == SubSeq(tE, k + 1, Len(tE))
    IN  IF targ = cleaned THEN [path |-> <<".">>, err |-> NoError]
        ELSE IF IsAbs(base) # IsAbs(targ) THEN [path |-> <<>>, err |-> ErrRel]
        ELSE IF k < Len(bE) /\ bE[k + 1] = DotDot
             THEN [path |-> <<>>, err |-> ErrRel]
        ELSE [path |-> JoinSep(up \o down), err |-> NoError]

(***************************************************************************)
(* Terraform attribute values (types.String): null, or a value.            *)
(***************************************************************************)
StringValue(v) == [null |-> FALSE, value |-> v]
StringNull == [null |-> TRUE, value |-> <<>>]
DataNull == [null |-> TRUE, value |-> Empty]

\* types.String.ValueString: the value, the empty string for null
ValueString(a) == a.value

\* the location a handler works with: "" unless the attribute is set
LocationOf(a) == IF ~a.null THEN ValueString(a) ELSE <<>>

\* what a handler hands back: the filesystem it leaves, the state of the
\* response and the error diagnostic ("nil" when there is none)
Response(d, f, state, summary, detail) ==
    [dirs |-> d, files |-> f, state |-> state, err |-> summary, detail |-> detail]

(***************************************************************************)
(* txtResource                                                             *)
(***************************************************************************)
TxtModel(id, name, location, data) ==
    [exists |-> TRUE, id |-> id, name |-> name, location |-> location,
     data |-> data]

\* Create recording the name, not the resolved path, as the id
txtCreateIdName(d, f, plan) ==
    LET resolved == fullPath(baseDir, LocationOf(plan.location),
                             ValueString(plan.name))
        written == WriteFile(d, f, resolved.path, ValueString(plan.data))
    IN  IF resolved.err # NoError
        THEN Response(d, f, NoResource, "Failed to determine file path",
                      resolved.err)
        ELSE IF written.err # NoError
        THEN Response(written.dirs, written.files, NoResource,
                      "Error writing file", written.err)
        ELSE Response(written.dirs, written.files,
                      TxtModel(plan.name, plan.name,
                               StringValue(LocationOf(plan.location)), plan.data),
                      NoError, NoError)

txtCreate(d, f, plan) ==
    LET name == ValueString(plan.name)
        location == LocationOf(plan.location)
        resolved == fullPath(baseDir, location, name)
        data == ValueString(plan.data)
        written == WriteFile(d, f, resolved.path, data)
    IN  IF resolved.err # NoError
        THEN Response(d, f, NoResource, "Failed to determine file path",
                      resolved.err)
        ELSE IF written.err # NoError
        THEN Response(written.dirs, written.files, NoResource,
                      "Error writing file", written.err)
        ELSE Response(written.dirs, written.files,
                      TxtModel(StringValue(resolved.path), StringValue(name),
                               StringValue(location), StringValue(data)),
                      NoError, NoError)

txtRead(d, f, state) ==
    LET pathStr == ValueString(state.id)
        content == ReadFile(d, f, pathStr)
    IN  IF pathStr = <<>> THEN Response(d, f, state, NoError, NoError)
        ELSE IF content.err # NoError
        THEN Response(d, f, NoResource, NoError, NoError)
        ELSE Response(d, f, [state EXCEPT !.data = StringValue(content.data)],
                      NoError, NoError)

txtUpdate(d, f, plan, state) ==
    LET pathStr == ValueString(state.id)
        written == WriteFile(d, f, pathStr, ValueString(plan.data))
        updated == [state EXCEPT !.data = StringValue(ValueString(plan.data))]
    IN  IF ValueString(plan.data) # ValueString(state.data)
        THEN IF written.err # NoError
             THEN Response(written.dirs, written.files, state,
                           "Error updating file", written.err)
             ELSE Response(written.dirs, written.files, updated, NoError, NoError)
        ELSE Response(d, f, updated, NoError, NoError)

txtDelete(d, f, state) ==
    LET pathStr == ValueString(state.id)
        removed == Delete(d, f, pathStr)
    IN  IF removed.err # NoError
        THEN Response(d, f, state, "Error deleting file", removed.err)
        ELSE Response(removed.dirs, removed.files, NoResource, NoError, NoError)

\* ImportState keeping filepath.Dir's "." as the location
txtImportStateDot(d, f, importID) ==
    LET rel == Rel(baseDir, importID)
    IN  IF rel.err # NoError
        THEN Response(d, f, NoResource, "Invalid import ID", rel.err)
        ELSE Response(d, f,
                      TxtModel(StringValue(importID), StringValue(Base(rel.path)),
                               StringValue(Dir(rel.path)), DataNull),
                      NoError, NoError)

txtImportState(d, f, importID) ==
    LET rel == Rel(baseDir, importID)
        name == Base(rel.path)
        loc == Dir(rel.path)
    IN  IF rel.err # NoError
        THEN Response(d, f, NoResource, "Invalid import ID", rel.err)
        ELSE Response(d, f,
                      TxtModel(StringValue(importID), StringValue(name),
                               IF loc = <<".">> THEN StringValue(<<>>)
                               ELSE StringValue(loc),
                               DataNull),
                      NoError, NoError)

(***************************************************************************)
(* zipResource                                                             *)
(***************************************************************************)
ZipModel(id, src, name, location) ==
    [exists |-> TRUE, id |-> id, src_data_file |-> src, name |-> name,
     location |-> location]

\* os.Stat, by its error
Stat(d, f, p) ==
    IF Lookup(d, f, p) \in {"file", "dir"} THEN NoError ELSE Lookup(d, f, p)

zipCreate(d, f, plan) ==
    LET srcPath == ValueString(plan.src_data_file)
        name == ValueString(plan.name)
        loc == LocationOf(plan.location)
        resolved == fullPath(baseDir, loc, name)
        internalName == Base(srcPath)
        zipped == CreateZipFile(d, f, resolved.path, srcPath, internalName)
    IN  IF resolved.err # NoError
        THEN Response(d, f, NoResource, "Failed to determine zip path",
                      resolved.err)
        ELSE IF zipped.err # NoError
        THEN Response(zipped.dirs, zipped.files, NoResource,
                      "Error creating zip archive", zipped.err)
        ELSE Response(zipped.dirs, zipped.files,
                      ZipModel(StringValue(resolved.path), StringValue(srcPath),
                               StringValue(name), StringValue(loc)),
                      NoError, NoError)

\* a Read that drops the resource on every failure of the existence check
zipReadAnyError(d, f, state) ==
    LET zipPath == ValueString(state.id)
        err == Stat(d, f, zipPath)
    IN  IF zipPath = <<>> THEN Response(d, f, state, NoError, NoError)
        ELSE IF err # NoError
        THEN Response(d, f, NoResource, NoError, NoError)
        ELSE Response(d, f, state, NoError, NoError)

zipRead(d, f, state) ==
    LET zipPath == ValueString(state.id)
        err == Stat(d, f, zipPath)
    IN  IF zipPath = <<>> THEN Response(d, f, state, NoError, NoError)
        ELSE IF err # NoError
        THEN IF IsNotExist(err)
             THEN Response(d, f, NoResource, NoError, NoError)
             ELSE Response(d, f, state, "Error reading zip file", err)
        ELSE Response(d, f, state, NoError, NoError)

zipUpdate(d, f, plan, state) == Response(d, f, state, NoError, NoError)

zipDelete(d, f, state) ==
    LET zipPath == ValueString(state.id)
        removed == Delete(d, f, zipPath)
    IN  IF removed.err # NoError
        THEN Response(d, f, state, "Error deleting zip file", removed.err)
        ELSE Response(removed.dirs, removed.files, NoResource, NoError, NoError)

zipImportState(d, f, importID) ==
    LET rel == Rel(baseDir, importID)
        name == Base(rel.path)
        loc == Dir(rel.path)
    IN  IF rel.err # NoError
        THEN Response(d, f, NoResource, "Invalid import ID", rel.err)
        ELSE Response(d, f,
                      ZipModel(StringValue(importID), StringNull,
                               StringValue(name),
                               IF loc = <<".">> THEN StringValue(<<>>)
                               ELSE StringValue(loc)),
                      NoError, NoError)

(***************************************************************************)
(* txtDataSource                                                           *)
(***************************************************************************)
\* a data source Read that answers a failed ReadFile with an empty file
dataSourceReadLenient(d, f, config) ==
    LET name == ValueString(config.name)
        location == LocationOf(config.location)
        resolved == fullPath(baseDir, location, name)
        content == ReadFile(d, f, resolved.path)
    IN  IF name = <<>>
        THEN Response(d, f, NoResource, "Missing file name",
                      "The name attribute must be provided.")
        ELSE IF resolved.err # NoError
        THEN Response(d, f, NoResource, "Invalid file path", resolved.err)
        ELSE Response(d, f,
                      TxtModel(StringValue(resolved.path), StringValue(name),
                               StringValue(location),
                               StringValue(content.data)),
                      NoError, NoError)

\* a data source Read that looks at the name only after it resolved the path
\* and read the file
dataSourceReadNameLast(d, f, config) ==
    LET name == ValueString(config.name)
        location == LocationOf(config.location)
        resolved == fullPath(baseDir, location, name)
        content == ReadFile(d, f, resolved.path)
    IN  IF resolved.err # NoError
        THEN Response(d, f, NoResource, "Invalid file path", resolved.err)
        ELSE IF content.err # NoError
        THEN Response(d, f, NoResource, "Error reading file", content.err)
        ELSE IF name = <<>>
        THEN Response(d, f, NoResource, "Missing file name",
                      "The name attribute must be provided.")
        ELSE Response(d, f,
                      TxtModel(StringValue(resolved.path), StringValue(name),
                               StringValue(location),
                               StringValue(content.data)),
                      NoError, NoError)

dataSourceRead(d, f, config) ==
    LET name == ValueString(config.name)
        location == LocationOf(config.location)
        resolved == fullPath(baseDir, location, name)
        content == ReadFile(d, f, resolved.path)
    IN  IF name = <<>>
        THEN Response(d, f, NoResource, "Missing file name",
                      "The name attribute must be provided.")
        ELSE IF resolved.err # NoError
        THEN Response(d, f, NoResource, "Invalid file path", resolved.err)
        ELSE IF content.err # NoError
        THEN Response(d, f, NoResource, "Error reading file", content.err)
        ELSE Response(d, f,
                      TxtModel(StringValue(resolved.path), StringValue(name),
                               StringValue(location),
                               StringValue(content.data)),
                      NoError, NoError)

(***************************************************************************)
(* The provider: Terraform drives the handlers of the two resources and of *)
(* the data source, in any order, over one filesystem.  The provider was   *)
(* configured with the base directory /t, which exists and is empty.       *)
(***************************************************************************)
NameE == <<"e">>
NameTDot == <<"t", ".">>
NameZ == <<"z">>
PathZ == TheBase \o <<Separator>> \o NameZ

\* the (location, name) pairs of the configurations
TxtTargets ==
    { <<StringNull, NameE>>, <<StringValue(DotDot), NameE>>,
      <<StringValue(DotDot), NameTDot>> }

TxtPlans ==
    { [location |-> t[1], name |-> StringValue(t[2]), data |-> StringValue(c)] :
        t \in TxtTargets, c \in Texts }

ZipPlans ==
    { [location |-> l, name |-> StringValue(NameZ),
       src_data_file |-> StringValue(sp)] :
        l \in {StringNull, StringValue(DotDot)}, sp \in {PathE, PathZ} }

DataSourceConfigs ==
    { [location |-> t[1], name |-> StringValue(t[2])] :
        t \in TxtTargets \cup { <<StringNull, <<>> >>, <<StringValue(DotDot), <<>> >>,
                             <<StringNull, NameZ>> } }

TxtImportIDs == { PathE, PathEE, PathZ, Root \o NameTDot, NameE, <<>> }
ZipImportIDs == { PathZ, PathE, PathEE, TheBase, NameZ }

\* what a call leaves behind: the filesystem and the invocation's record; a
\* handler runs on the client its resource or data source was configured with
Done(op, input, r) ==
    /\ client # NoClient
    /\ dirs' = r.dirs
    /\ files' = r.files
    /\ Returned([op |-> op, input |-> input],
                [err |-> r.err, detail |-> r.detail, state |-> r.state])
    /\ UNCHANGED <<client, baseDir, wd, prev, hist>>

Init ==
    /\ baseDir = TheBase
    /\ dirs = AncestorsOrSelf(TheBase)
    /\ files = NoFiles
    /\ old = [dirs |-> AncestorsOrSelf(TheBase), files |-> NoFiles]
    /\ wd = Root
    /\ call = Idle
    /\ ret = NoRet
    /\ prev = NoPrev
    /\ hist = NoHist
    /\ txtState = NoResource
    /\ zipState = NoResource
    /\ client = FileClient

TxtCreate ==
    \E plan \in TxtPlans :
        LET r == txtCreate(dirs, files, plan)
        IN  /\ ~txtState.exists
            /\ Done("txt.Create", plan, r)
            /\ txtState' = r.state
            /\ UNCHANGED zipState

TxtRead ==
    LET r == txtRead(dirs, files, txtState)
    IN  /\ txtState.exists
        /\ Done("txt.Read", txtState, r)
        /\ txtState' = r.state
        /\ UNCHANGED zipState

TxtUpdate ==
    \E c \in Texts :
        LET plan == [id |-> txtState.id, location |-> txtState.location,
                     name |-> txtState.name, data |-> StringValue(c)]
            r == txtUpdate(dirs, files, plan, txtState)
        IN  /\ txtState.exists
            /\ Done("txt.Update", plan, r)
            /\ txtState' = r.state
            /\ UNCHANGED zipState

TxtDelete ==
    LET r == txtDelete(dirs, files, txtState)
    IN  /\ txtState.exists
        /\ Done("txt.Delete", txtState, r)
        /\ txtState' = r.state
        /\ UNCHANGED zipState

TxtImportState ==
    \E importID \in TxtImportIDs :
        LET r == txtImportState(dirs, files, importID)
        IN  /\ ~txtState.exists
            /\ Done("txt.ImportState", importID, r)
            /\ txtState' = r.state
            /\ UNCHANGED zipState

ZipCreate ==
    \E plan \in ZipPlans :
        LET r == zipCreate(dirs, files, plan)
        IN  /\ ~zipState.exists
            /\ Done("zip.Create", plan, r)
            /\ zipState' = r.state
            /\ UNCHANGED txtState

ZipRead ==
    LET r == zipRead(dirs, files, zipState)
    IN  /\ zipState.exists
        /\ Done("zip.Read", zipState, r)
        /\ zipState' = r.state
        /\ UNCHANGED txtState

ZipUpdate ==
    LET r == zipUpdate(dirs, files, zipState, zipState)
    IN  /\ zipState.exists
        /\ Done("zip.Update", zipState, r)
        /\ zipState' = r.state
        /\ UNCHANGED txtState

ZipDelete ==
    LET r == zipDelete(dirs, files, zipState)
    IN  /\ zipState.exists
        /\ Done("zip.Delete", zipState, r)
        /\ zipState' = r.state
        /\ UNCHANGED txtState

ZipImportState ==
    \E importID \in ZipImportIDs :
        LET r == zipImportState(dirs, files, importID)
        IN  /\ ~zipState.exists
            /\ Done("zip.ImportState", importID, r)
            /\ zipState' = r.state
            /\ UNCHANGED txtState

DataSourceRead ==
    \E config \in DataSourceConfigs :
        LET r == dataSourceRead(dirs, files, config)
        IN  /\ Done("data.Read", config, r)
            /\ UNCHANGED <<txtState, zipState>>

Next ==
    \/ TxtCreate
    \/ TxtRead
    \/ TxtUpdate
    \/ TxtDelete
    \/ TxtImportState
    \/ ZipCreate
    \/ ZipRead
    \/ ZipUpdate
    \/ ZipDelete
    \/ ZipImportState
    \/ DataSourceRead

Spec == Init /\ [][Next]_vars

(***************************************************************************)
(* The provider over a prior state.  Terraform hands Read the state it     *)
(* kept from an earlier run; zipResource.Read provides for a state whose   *)
(* id is the empty string.  The handlers then run as above.                *)
(***************************************************************************)
\* a zip resource in the prior state with an empty id
ZipStateNoID ==
    ZipModel(StringValue(<<>>), StringNull, StringValue(NameZ),
             StringValue(<<>>))

PriorZipStates == { NoResource, ZipStateNoID }

RefreshInit ==
    /\ baseDir = TheBase
    /\ dirs = AncestorsOrSelf(TheBase)
    /\ files = NoFiles
    /\ old = [dirs |-> AncestorsOrSelf(TheBase), files |-> NoFiles]
    /\ wd = Root
    /\ call = Idle
    /\ ret = NoRet
    /\ prev = NoPrev
    /\ hist = NoHist
    /\ txtState = NoResource
    /\ zipState \in PriorZipStates
    /\ client = FileClient

RefreshNext ==
    \/ TxtCreate
    \/ TxtUpdate
    \/ TxtDelete
    \/ TxtImportState
    \/ ZipCreate
    \/ ZipRead
    \/ ZipDelete
    \/ ZipImportState

SpecRefresh == RefreshInit /\ [][RefreshNext]_vars

(***************************************************************************)
(* The specification of ImportState alone: a base directory and an import  *)
(* id are drawn, and the txt or the zip resource imports it.               *)
(***************************************************************************)
ImportIDs(base) ==
    StringsUpTo(MaxImportLen) \cup {base \o s : s \in StringsUpTo(MaxImportLen)}

ImportInit ==
    /\ baseDir \in BaseDirs
    /\ dirs = AncestorsOrSelf(baseDir)
    /\ files = NoFiles
    /\ old = [dirs |-> AncestorsOrSelf(baseDir), files |-> NoFiles]
    /\ wd = Root
    /\ \E op \in {"txt.ImportState", "zip.ImportState"},
          importID \in ImportIDs(baseDir) :
           call = [op |-> op, input |-> importID]
    /\ ret = Pending
    /\ prev = NoPrev
    /\ hist = NoHist
    /\ txtState = NoResource
    /\ zipState = NoResource
    /\ client = FileClient

ImportTxt ==
    LET r == txtImportState(dirs, files, call.input)
    IN  /\ call.op = "txt.ImportState"
        /\ ret = Pending
        /\ ret' = [err |-> r.err, detail |-> r.detail, state |-> r.state]
        /\ txtState' = r.state
        /\ UNCHANGED <<client, baseDir, dirs, files, wd, old, call, prev, hist, zipState>>

ImportZip ==
    LET r == zipImportState(dirs, files, call.input)
    IN  /\ call.op = "zip.ImportState"
        /\ ret = Pending
        /\ ret' = [err |-> r.err, detail |-> r.detail, state |-> r.state]
        /\ zipState' = r.state
        /\ UNCHANGED <<client, baseDir, dirs, files, wd, old, call, prev, hist, txtState>>

ImportNext ==
    \/ ImportTxt
    \/ ImportZip

SpecImport == ImportInit /\ [][ImportNext]_vars

(***************************************************************************)
(* localfileProvider.Configure, and the specification of a provider        *)
(* process from its start: Configure validates base_dir and hands the      *)
(* client over, and only then do Terraform's calls reach the handlers.     *)
(***************************************************************************)
\* the base_dir attribute of the provider configuration
ConfigValue(v) == [unknown |-> FALSE, null |-> FALSE, value |-> v]
ConfigNull == [unknown |-> FALSE, null |-> TRUE, value |-> <<>>]
ConfigUnknown == [unknown |-> TRUE, null |-> FALSE, value |-> <<>>]

IsUnknown(a) == a.unknown

\* Configure rejecting a base_dir that does not exist, not one that is a file
providerConfigureAnyEntry(d, f, config) ==
    LET absDir == Abs(ValueString(config))
    IN  IF IsUnknown(config) \/ ValueString(config) = <<>>
           \/ Stat(d, f, absDir) # NoError
        THEN [client |-> NoClient, BaseDir |-> <<>>, err |-> "Invalid base_dir"]
        ELSE [client |-> FileClient, BaseDir |-> absDir, err |-> NoError]

providerConfigure(d, f, config) ==
    LET value == ValueString(config)
        absDir == Abs(value)
    IN  IF IsUnknown(config)
        THEN [client |-> NoClient, BaseDir |-> <<>>, err |-> "Unknown base_dir"]
        ELSE IF value = <<>>
        THEN [client |-> NoClient, BaseDir |-> <<>>, err |-> "Missing base_dir"]
        ELSE IF Stat(d, f, absDir) # NoError
        THEN [client |-> NoClient, BaseDir |-> <<>>, err |-> "Invalid base_dir"]
        ELSE IF Lookup(d, f, absDir) # "dir"
        THEN [client |-> NoClient, BaseDir |-> <<>>, err |-> "Invalid base_dir"]
        ELSE [client |-> FileClient, BaseDir |-> absDir, err |-> NoError]

ProviderConfigs ==
    { ConfigUnknown, ConfigNull, ConfigValue(<<>>), ConfigValue(TheBase),
      ConfigValue(PathE), ConfigValue(NameE),
      ConfigValue(TheBase \o <<Separator>>), ConfigValue(Root \o NameE) }

ConfigureFilesystems ==
    { Fs(AncestorsOrSelf(TheBase), NoFiles),
      Fs(AncestorsOrSelf(TheBase), With(NoFiles, PathE, Text("a"))),
      Fs(AncestorsOrSelf(PathE), NoFiles) }

ConfigureInit ==
    /\ client = NoClient
    /\ baseDir = <<>>
    /\ \E fs \in ConfigureFilesystems :
           /\ dirs = fs.dirs
           /\ files = fs.files
           /\ old = fs
    /\ wd \in {Root, TheBase}
    /\ call = Idle
    /\ ret = NoRet
    /\ prev = NoPrev
    /\ hist = NoHist
    /\ txtState = NoResource
    /\ zipState = NoResource

Configure ==
    \E config \in ProviderConfigs :
        LET r == providerConfigure(dirs, files, config)
        IN  /\ client = NoClient
            /\ client' = r.client
            /\ baseDir' = r.BaseDir
            /\ Returned([op |-> "Configure", input |-> config], [err |-> r.err])
            /\ UNCHANGED <<dirs, files, wd, prev, hist, txtState, zipState>>

ConfigureNext ==
    \/ Configure
    \/ TxtCreate
    \/ TxtDelete
    \/ ZipCreate
    \/ ZipDelete
    \/ DataSourceRead

SpecConfigure == ConfigureInit /\ [][ConfigureNext]_vars

(***************************************************************************)
(* Two FileClient calls on one path, running concurrently (Terraform       *)
(* applies resources in parallel and the client has no lock).  Each call   *)
(* advances by the system calls its library function makes; a system call  *)
(* is atomic.  Here the bytes of a file are a sequence, since a write      *)
(* lands at an offset: Text(<<"a", "a">>).                                 *)
(*   os.WriteFile: open(O_WRONLY|O_CREATE|O_TRUNC), write, close           *)
(*   os.ReadFile:  open(O_RDONLY), read to the end, close                  *)
(*   os.Remove:    unlink, and rmdir if that failed                        *)
(***************************************************************************)
Procs == {1, 2}
ThePath == PathE
NoBytes == Text(<<>>)
ConcTexts == {Text(<<"a">>), Text(<<"a", "a">>), Text(<<"b">>)}

\* a file descriptor: it names the file's inode, which outlives its unlinking
NoFd == [open |-> FALSE, linked |-> FALSE, orphan |-> NoBytes]
Fd == [open |-> TRUE, linked |-> TRUE, orphan |-> NoBytes]

\* write(fd, data) on a descriptor at offset 0: bytes beyond data stay
WriteAt(c, data) ==
    Text(data.text \o SubSeq(c.text, Len(data.text) + 1, Len(c.text)))

\* unlink that fails on a file somebody holds open
UnlinkBusy(d, f, path) ==
    IF \E j \in Procs : call[j].fd.open /\ call[j].path = path
    THEN [dirs |-> d, files |-> f, err |-> EBUSY]
    ELSE [dirs |-> d,
          files |-> IF path \in DOMAIN f THEN Without(f, path) ELSE f,
          err |-> Lookup(d, f, path)]

\* unlink(path)
Unlink(d, f, path) ==
    LET at == Lookup(d, f, path)
    IN  IF at = "file" THEN [dirs |-> d, files |-> Without(f, path), err |-> NoError]
        ELSE IF at = "dir" THEN [dirs |-> d, files |-> f, err |-> EISDIR]
        ELSE [dirs |-> d, files |-> f, err |-> at]

\* rmdir(path)
Rmdir(d, f, path) ==
    LET at == Lookup(d, f, path)
    IN  IF at = "file" THEN [dirs |-> d, files |-> f, err |-> ENOTDIR]
        ELSE IF at = "dir" THEN OsRemove(d, f, path)
        ELSE [dirs |-> d, files |-> f, err |-> at]

Invocations ==
    {[op |-> "WriteFile", path |-> ThePath, data |-> c, pc |-> "MkdirAll",
      fd |-> NoFd, unlinkErr |-> NoError] : c \in ConcTexts}
    \cup {[op |-> "ReadFile", path |-> ThePath, data |-> NoBytes, pc |-> "open",
           fd |-> NoFd, unlinkErr |-> NoError],
          [op |-> "Delete", path |-> ThePath, data |-> NoBytes, pc |-> "unlink",
           fd |-> NoFd, unlinkErr |-> NoError]}

\* the pairs of calls that race: a reader never runs beside a writer
Races ==
    {c \in [Procs -> Invocations] :
        ~(\E i, j \in Procs : c[i].op = "WriteFile" /\ c[j].op = "ReadFile")}

ConcFilesystems ==
    {Fs(AncestorsOrSelf(TheBase), NoFiles)}
    \cup {Fs(AncestorsOrSelf(TheBase), With(NoFiles, ThePath, c)) : c \in ConcTexts}

ConcInit ==
    /\ baseDir = TheBase
    /\ client = FileClient
    /\ wd = Root
    /\ \E fs \in ConcFilesystems :
           /\ dirs = fs.dirs
           /\ files = fs.files
           /\ old = fs
    /\ call \in Races
    /\ ret = [i \in Procs |-> Pending]
    /\ prev = NoPrev
    /\ hist = NoHist
    /\ txtState = NoResource
    /\ zipState = NoResource

\* process i moves to pc, or returns r
Goto(i, pc) == call' = [call EXCEPT ![i].pc = pc] /\ UNCHANGED ret
Return(i, r) == call' = [call EXCEPT ![i].pc = "done"] /\ ret' = [ret EXCEPT ![i] = r]

ConcFrame == UNCHANGED <<client, baseDir, wd, old, prev, hist, txtState, zipState>>

WriteMkdirAll(i) ==
    LET r == MkdirAll(dirs, files, Dir(call[i].path))
    IN  /\ call[i].op = "WriteFile" /\ call[i].pc = "MkdirAll"
        /\ dirs' = r.dirs
        /\ UNCHANGED files
        /\ IF r.err # NoError THEN Return(i, [err |-> r.err, data |-> NoBytes])
           ELSE Goto(i, "open")
        /\ ConcFrame

WriteOpen(i) ==
    LET r == OpenTruncWrite(dirs, files, call[i].path, NoBytes)
    IN  /\ call[i].op = "WriteFile" /\ call[i].pc = "open"
        /\ files' = r.files
        /\ UNCHANGED dirs
        /\ IF r.err # NoError THEN Return(i, [err |-> r.err, data |-> NoBytes])
           ELSE /\ call' = [call EXCEPT ![i].pc = "write", ![i].fd = Fd]
                /\ UNCHANGED ret
        /\ ConcFrame

WriteWrite(i) ==
    /\ call[i].op = "WriteFile" /\ call[i].pc = "write"
    /\ IF call[i].fd.linked
       THEN /\ files' = [files EXCEPT ![call[i].path] = WriteAt(@, call[i].data)]
            /\ call' = [call EXCEPT ![i].pc = "close"]
       ELSE /\ UNCHANGED files
            /\ call' = [call EXCEPT ![i].pc = "close",
                                    ![i].fd.orphan = WriteAt(@, call[i].data)]
    /\ UNCHANGED <<dirs, ret>>
    /\ ConcFrame

WriteClose(i) ==
    /\ call[i].op = "WriteFile" /\ call[i].pc = "close"
    /\ Return(i, [err |-> NoError, data |-> NoBytes])
    /\ UNCHANGED <<dirs, files>>
    /\ ConcFrame

ReadOpen(i) ==
    /\ call[i].op = "ReadFile" /\ call[i].pc = "open"
    /\ IF Lookup(dirs, files, call[i].path) = "file"
       THEN /\ call' = [call EXCEPT ![i].pc = "read", ![i].fd = Fd]
            /\ UNCHANGED ret
       ELSE Return(i, [err |-> OsReadFile(dirs, files, call[i].path).err,
                       data |-> NoBytes])
    /\ UNCHANGED <<dirs, files>>
    /\ ConcFrame

ReadRead(i) ==
    /\ call[i].op = "ReadFile" /\ call[i].pc = "read"
    /\ Return(i, [err |-> NoError,
                  data |-> IF call[i].fd.linked THEN files[call[i].path]
                           ELSE call[i].fd.orphan])
    /\ UNCHANGED <<dirs, files>>
    /\ ConcFrame

\* whoever holds the file open keeps its inode when the name goes away
Orphaned(c, i, path) ==
    [j \in Procs |->
        IF j = i THEN [c[j] EXCEPT !.pc = "done"]
        ELSE IF c[j].fd.open /\ c[j].fd.linked /\ c[j].path = path
        THEN [c[j] EXCEPT !.fd.linked = FALSE, !.fd.orphan = files[path]]
        ELSE c[j]]

DeleteUnlink(i) ==
    LET r == Unlink(dirs, files, call[i].path)
    IN  /\ call[i].op = "Delete" /\ call[i].pc = "unlink"
        /\ files' = r.files
        /\ UNCHANGED dirs
        /\ IF r.err = NoError
           THEN /\ call' = Orphaned(call, i, call[i].path)
                /\ ret' = [ret EXCEPT ![i] = [err |-> NoError, data |-> NoBytes]]
           ELSE /\ call' = [call EXCEPT ![i].pc = "rmdir", ![i].unlinkErr = r.err]
                /\ UNCHANGED ret
        /\ ConcFrame

DeleteRmdir(i) ==
    LET r == Rmdir(dirs, files, call[i].path)
        e == IF r.err = NoError THEN NoError
             ELSE IF r.err # ENOTDIR THEN r.err ELSE call[i].unlinkErr
    IN  /\ call[i].op = "Delete" /\ call[i].pc = "rmdir"
        /\ dirs' = r.dirs
        /\ UNCHANGED files
        /\ Return(i, [err |-> IF IsNotExist(e) THEN NoError ELSE e,
                      data |-> NoBytes])
        /\ ConcFrame

ConcNext ==
    \E i \in Procs :
        \/ WriteMkdirAll(i)
        \/ WriteOpen(i)
        \/ WriteWrite(i)
        \/ WriteClose(i)
        \/ ReadOpen(i)
        \/ ReadRead(i)
        \/ DeleteUnlink(i)
        \/ DeleteRmdir(i)

SpecConcurrent == ConcInit /\ [][ConcNext]_vars

(***************************************************************************)
(* Reference notions for the claims about fullPath: the elements of a      *)
(* rooted path after "." and ".." are resolved, and containment by whole   *)
(* path elements.                                                          *)
(***************************************************************************)
ElemsOf(p) == CleanElems(Split(p), <<>>, TRUE)

IsPrefixSeq(s, t) == Len(s) <= Len(t) /\ SubSeq(t, 1, Len(s)) = s

\* base directory / location / name, normalized, as a rooted path
Resolved(base, location, name) ==
    <<Separator>> \o JoinSep(ElemsOf(base \o <<Separator>> \o location
                                        \o <<Separator>> \o name))

\* the joined, normalized path is the base directory or lies below it
StaysWithin(base, location, name) ==
    IsPrefixSeq(ElemsOf(base), ElemsOf(Resolved(base, location, name)))

\* p is exactly base, or starts with base followed by a path separator
InsideBase(p, base) == p = base \/ HasPrefix(p, base \o <<Separator>>)

FullPathReturned == call.op = "fullPath" /\ ret # Pending

\* C1: fullPath returns a path without error only if that path is exactly the
\* canonical base directory or starts with it followed by a path separator;
\* every other input yields the error "path escapes base directory".
C1_FullPathConfined ==
    FullPathReturned =>
        /\ ret.err \in {NoError, ErrEscape}
        /\ ret.err = NoError => InsideBase(ret.path, Abs(baseDir))
        /\ ~StaysWithin(baseDir, call.location, call.name) => ret.err = ErrEscape

\* C3: for every location (the empty one included) and name whose joined,
\* normalized path stays within the base directory, fullPath returns without
\* error the absolute normalized path base directory / location / name; the
\* result is a function of (base directory, location, name) alone: the
\* working directory of the process does not enter into it.
C3_FullPathWithin ==
    (FullPathReturned /\ StaysWithin(baseDir, call.location, call.name)) =>
        /\ ret.err = NoError
        /\ ret.path = Resolved(baseDir, call.location, call.name)
        /\ IsAbs(ret.path)

\* a call whose location climbs out of the base directory and whose name leads
\* back to it has returned the base directory itself, in a process whose
\* working directory is not the root
C3_Witness ==
    /\ FullPathReturned
    /\ StaysWithin(baseDir, call.location, call.name)
    /\ call.location = DotDot
    /\ call.name # <<>>
    /\ ret.err = NoError
    /\ ret.path = baseDir
    /\ wd # Root

(***************************************************************************)
(* Claims about the FileClient.                                            *)
(***************************************************************************)
\* the filesystem apart from path p: every other file and every other directory
Rest(d, f, p) == [dirs |-> d \ {p}, files |-> Without(f, p)]

\* C4: a successful WriteFile(p, s) followed by ReadFile(p), with no operation
\* in between, returns exactly s, whether or not a file with other content was
\* at p before the write.
C4_WriteThenRead ==
    ( /\ call.op = "ReadFile"
      /\ prev.call.op = "WriteFile"
      /\ prev.ret.err = NoError ) =>
        /\ ret.err = NoError
        /\ ret.data = prev.call.data

\* a read has returned what the write just before it stored over a file that
\* held something else
C4_Witness ==
    /\ call.op = "ReadFile"
    /\ prev.call.op = "WriteFile"
    /\ prev.ret.err = NoError
    /\ prev.call.path \in DOMAIN prev.old.files
    /\ prev.old.files[prev.call.path] # prev.call.data
    /\ ret.err = NoError
    /\ ret.data = prev.call.data

\* C5: Delete(p) returns no error when nothing exists at p; of two calls of
\* Delete(p) in succession the second never errors; after each call no file
\* is at p and the rest of the filesystem is as it was.
C5_DeleteIdempotent ==
    call.op = "Delete" =>
        /\ Lookup(old.dirs, old.files, call.path) \notin {"file", "dir"}
               => ret.err = NoError
        /\ prev.call.op = "Delete" => ret.err = NoError
        /\ call.path \notin DOMAIN files
        /\ Rest(dirs, files, call.path) = Rest(old.dirs, old.files, call.path)

\* C6: after CreateZipFile(archivePath, sourcePath, entryName) returns without
\* error, the archive at archivePath holds exactly one entry, named entryName,
\* whose bytes are those the source file had when CreateZipFile was called;
\* what was at archivePath before is replaced.
C6_ZipHoldsSource ==
    (call.op = "CreateZipFile" /\ ret.err = NoError) =>
        /\ call.path \in DOMAIN files
        /\ call.src \in DOMAIN old.files
        /\ files[call.path] = Zip(<<Entry(call.entry, old.files[call.src])>>)

\* C7: in a history of WriteFile, ReadFile and Delete on one path p, ReadFile(p)
\* returns the content of the most recent successful WriteFile(p, .) when no
\* Delete(p) came after it, and fails with a not-found error when the most
\* recent mutation of p was a Delete or p was never written.
C7_ReadSeesLastWrite ==
    call.op = "ReadFile" =>
        /\ hist.last = "written" => ret.err = NoError /\ ret.data = hist.data
        /\ hist.last \in {"deleted", "never"} => ret.err = ENOENT

\* C7 as amended: the failure is a not-found error unless p was never written
\* and is a directory ("is a directory") or lies below a regular file ("not a
\* directory").
C7_ReadSeesLastWriteOrFails ==
    call.op = "ReadFile" =>
        /\ hist.last = "written" => ret.err = NoError /\ ret.data = hist.data
        /\ hist.last = "deleted" => ret.err = ENOENT
        /\ hist.last = "never" =>
               LET at == Lookup(dirs, files, hist.path)
               IN  ret.err = (IF at = "dir" THEN EISDIR ELSE at)
                   /\ ret.err \in {ENOENT, EISDIR, ENOTDIR}

\* a read has failed with not-found after a delete that removed a file written
\* in this history
C7_Witness ==
    /\ call.op = "ReadFile"
    /\ hist.last = "deleted"
    /\ prev.call.op = "Delete"
    /\ prev.old.files # old.files
    /\ ret.err = ENOENT

\* C8: WriteFile and CreateZipFile create every missing parent directory of
\* their target path, and Delete removes only the file at its path: whatever
\* was a directory before an operation is a directory after it.
C8_DirectoriesKept ==
    /\ old.dirs \subseteq dirs
    /\ (call.op \in {"WriteFile", "CreateZipFile"} /\ ret.err = NoError)
           => Ancestors(call.path) \subseteq dirs

(***************************************************************************)
(* Claims about the provider.                                              *)
(***************************************************************************)
\* the files an operation created, overwrote with other content, or removed
Touched == { q \in DOMAIN files \cup DOMAIN old.files :
                \/ q \notin DOMAIN files
                \/ q \notin DOMAIN old.files
                \/ files[q] # old.files[q] }

\* C2: in any sequence of Create, Read, Update, Delete and ImportState calls on
\* the txt resource and the zip resource and of Read calls on the data source,
\* every file the provider creates, overwrites or deletes lies inside the
\* configured base directory.
C2_ConfinedToBase == \A q \in Touched : InsideBase(q, baseDir)

\* the path the txt data source resolves its configuration to
ResolvedOf(config) ==
    fullPath(baseDir, LocationOf(config.location), ValueString(config.name))

\* C9: when the txt resource's Read finds no file at the path stored in the
\* state's id, it removes the resource from state and reports no error; when
\* the data source's Read finds no file at the resolved path, it reports an
\* error diagnostic and sets no state.
C9_MissingFile ==
    /\ ( /\ call.op = "txt.Read"
         /\ ValueString(call.input.id) \notin DOMAIN old.files ) =>
            /\ txtState = NoResource
            /\ ret.state = NoResource
            /\ ret.err = NoError
    /\ ( /\ call.op = "data.Read"
         /\ ValueString(call.input.name) # <<>>
         /\ ResolvedOf(call.input).err = NoError
         /\ ResolvedOf(call.input).path \notin DOMAIN old.files ) =>
            /\ ret.err = "Error reading file"
            /\ ret.state = NoResource

\* a refresh of a resource that Create had written, after its file was removed
\* from under it, has dropped the resource without a diagnostic
C9_Witness ==
    /\ call.op = "txt.Read"
    /\ ~call.input.data.null
    /\ ValueString(call.input.id) \notin DOMAIN old.files
    /\ Lookup(old.dirs, old.files, ValueString(call.input.id)) = ENOENT
    /\ txtState = NoResource
    /\ ret.err = NoError

\* C10: after a successful txt resource Create with name n, data d and location
\* l (empty when omitted), the file at fullPath(l, n) contains exactly d and
\* the new state has id = fullPath(l, n), name = n, location = l and data = d.
C10_CreateWritesAndRecords ==
    (call.op = "txt.Create" /\ ret.err = NoError) =>
        LET l == LocationOf(call.input.location)
            n == ValueString(call.input.name)
            d == ValueString(call.input.data)
            p == fullPath(baseDir, l, n)
        IN  /\ p.err = NoError
            /\ p.path \in DOMAIN files
            /\ files[p.path] = d
            /\ txtState = TxtModel(StringValue(p.path), StringValue(n),
                                   StringValue(l), StringValue(d))

\* a Create without a location has written a file that was not there and
\* recorded the empty location
C10_Witness ==
    /\ call.op = "txt.Create"
    /\ ret.err = NoError
    /\ call.input.location.null
    /\ txtState.exists
    /\ ValueString(txtState.id) \notin DOMAIN old.files
    /\ files[ValueString(txtState.id)] = ValueString(call.input.data)
    /\ txtState.location = StringValue(<<>>)

\* C11: after every txt resource Update that returns without error, the file
\* at the path in the state's id contains exactly the planned data and the
\* state's data equals the planned data, while id, name and location are
\* unchanged, whatever the file held when Update was called.
C11_UpdateWritesPlanned ==
    (call.op = "txt.Update" /\ ret.err = NoError) =>
        /\ ValueString(txtState.id) \in DOMAIN files
        /\ files[ValueString(txtState.id)] = ValueString(call.input.data)
        /\ txtState.data = call.input.data
        /\ txtState.id = call.input.id
        /\ txtState.name = call.input.name
        /\ txtState.location = call.input.location

\* the state of the resource the last call was made on
StateOfCall ==
    IF call.op \in {"zip.Create", "zip.Read", "zip.Update", "zip.Delete",
                    "zip.ImportState"}
    THEN zipState ELSE txtState

\* C12: after a txt or zip resource Delete that returns without error, no file
\* exists at the path in the state's id and the resource is removed from
\* state; Delete succeeds also when the file is already absent; when the
\* removal fails, an error diagnostic is reported and the resource stays in
\* state.
C12_DeleteResource ==
    call.op \in {"txt.Delete", "zip.Delete"} =>
        LET id == ValueString(call.input.id)
        IN  /\ ret.err = NoError =>
                   id \notin DOMAIN files /\ StateOfCall = NoResource
            /\ Lookup(old.dirs, old.files, id) \notin {"file", "dir"} =>
                   ret.err = NoError
            /\ Delete(old.dirs, old.files, id).err # NoError =>
                   ret.err # NoError /\ StateOfCall = call.input

\* an absolute, normalized path strictly below the base directory
StrictlyInside(p, base) ==
    IsAbs(p) /\ Clean(p) = p /\ HasPrefix(p, base \o <<Separator>>)

\* the components of such a path after the base directory
ComponentsBelow(p, base) == Split(SubSeq(p, Len(base) + 2, Len(p)))

\* C13: for every absolute normalized import path inside the base directory
\* (below it), txt resource ImportState sets id to the import path, name to its
\* last path component and location to its directory relative to the base
\* directory (the empty string when the file is directly under the base
\* directory), so that fullPath(location, name) equals the imported id; data
\* is left null.
C13_ImportRoundTrip ==
    ( /\ call.op = "txt.ImportState"
      /\ ret # Pending
      /\ StrictlyInside(call.input, baseDir) ) =>
        LET below == ComponentsBelow(call.input, baseDir)
        IN  /\ ret.err = NoError
            /\ txtState.exists
            /\ txtState.id = StringValue(call.input)
            /\ txtState.name = StringValue(below[Len(below)])
            /\ txtState.location =
                   StringValue(JoinSep(SubSeq(below, 1, Len(below) - 1)))
            /\ fullPath(baseDir, ValueString(txtState.location),
                        ValueString(txtState.name))
                   = [path |-> call.input, err |-> NoError]
            /\ txtState.data.null

\* a file in a subdirectory of the base directory has been imported
C13_Witness ==
    /\ call.op = "txt.ImportState"
    /\ ret # Pending
    /\ StrictlyInside(call.input, baseDir)
    /\ Len(ComponentsBelow(call.input, baseDir)) = 2
    /\ txtState.exists
    /\ ValueString(txtState.location) # <<>>
    /\ txtState.data.null

\* C14: a successful data source Read with name n and location l returns
\* id = fullPath(l, n) and data = the current content of that file, and the
\* data source never creates, modifies or deletes any file or directory.
C14_DataSourceReads ==
    call.op = "data.Read" =>
        /\ dirs = old.dirs
        /\ files = old.files
        /\ ret.err = NoError =>
               LET p == ResolvedOf(call.input)
               IN  /\ p.err = NoError
                   /\ p.path \in DOMAIN files
                   /\ ret.state.exists
                   /\ ret.state.id = StringValue(p.path)
                   /\ ret.state.data = StringValue(files[p.path])

\* the data source has read a file that holds text
C14_Witness ==
    /\ call.op = "data.Read"
    /\ ret.err = NoError
    /\ ret.state.exists
    /\ ValueString(ret.state.id) \in DOMAIN files
    /\ ValueString(ret.state.data) = files[ValueString(ret.state.id)]
    /\ ValueString(ret.state.data) \in Texts

(***************************************************************************)
(* Claims about the provider's configuration.                              *)
(***************************************************************************)
\* the absolute form of a path: itself when rooted, else below the working
\* directory; normalized
AbsoluteForm(v) ==
    <<Separator>> \o
        JoinSep(ElemsOf(IF IsAbs(v) THEN v ELSE wd \o <<Separator>> \o v))

\* base_dir is known, non-empty, exists and is a directory
ValidBaseDir(config, d) ==
    /\ ~config.unknown
    /\ ~config.null
    /\ config.value # <<>>
    /\ AbsoluteForm(config.value) \in d

HandlerOps ==
    {"txt.Create", "txt.Read", "txt.Update", "txt.Delete", "txt.ImportState",
     "zip.Create", "zip.Read", "zip.Update", "zip.Delete", "zip.ImportState",
     "data.Read"}

ConfigureOutcome ==
    /\ call.op = "Configure" =>
           IF ValidBaseDir(call.input, old.dirs)
           THEN /\ client = FileClient
                /\ baseDir = AbsoluteForm(call.input.value)
                /\ ret.err = NoError
           ELSE /\ client = NoClient
                /\ ret.err # NoError
    /\ call.op \in HandlerOps =>
           /\ client = FileClient
           /\ IsAbs(baseDir)
           /\ baseDir \in dirs
    /\ client = NoClient => call.op \notin HandlerOps

\* C15: provider Configure hands a FileClient to resources and data sources
\* only when base_dir is known, non-empty, exists and is a directory, and the
\* client's BaseDir is then the absolute form of base_dir; in every other case
\* it reports an error diagnostic and hands over no client, so no handler (and
\* no fullPath call) ever runs against an unvalidated base directory, and
\* BaseDir is never changed after construction.
C15_ConfigureValidates ==
    /\ []ConfigureOutcome
    /\ [][client # NoClient => (client' = client /\ baseDir' = baseDir)]_vars

\* a relative base_dir naming a directory below the working directory has been
\* accepted, and the client holds its absolute form
C15_Witness ==
    /\ call.op = "Configure"
    /\ call.input = ConfigValue(NameE)
    /\ wd = TheBase
    /\ client = FileClient
    /\ baseDir = PathE
    /\ ret.err = NoError

(***************************************************************************)
(* Further claims about the FileClient.                                    *)
(***************************************************************************)
\* what CreateZipFile leaves at the archive path when it gives up on the
\* source: an archive without entries, or with one entry without bytes
FailureArtifacts(name) == {EmptyZip, Zip(<<Entry(name, Empty)>>)}

\* C16: CreateZipFile returns an error when the source file cannot be opened
\* or read; it performs no rollback, so after such a failure a file exists at
\* archivePath (created or truncated before the source was opened) and an
\* archive that was at archivePath before the call is no longer intact.
C16_NoRollback ==
    ( /\ call.op = "CreateZipFile"
      /\ Lookup(old.dirs, old.files, call.src) # "file" ) =>
        /\ ret.err # NoError
        /\ Lookup(old.dirs, old.files, call.path) \in {"file", ENOENT} =>
               /\ call.path \in DOMAIN files
               /\ files[call.path] \in FailureArtifacts(call.entry)

(***************************************************************************)
(* Claims about concurrent calls.                                          *)
(***************************************************************************)
AllReturned == \A i \in Procs : call[i].pc = "done"

\* C17: when two WriteFile calls on the same path with contents a and b run
\* concurrently and both return without error, the file's final content is
\* exactly a or exactly b, under every interleaving of their truncate and
\* write steps.
C17_LastWriterWins ==
    ( /\ \A i \in Procs : call[i].op = "WriteFile"
      /\ AllReturned
      /\ \A i \in Procs : ret[i].err = NoError ) =>
        /\ ThePath \in DOMAIN files
        /\ files[ThePath] \in {call[i].data : i \in Procs}

\* C18: when Delete(p) and ReadFile(p) run concurrently on an existing file
\* with content s and no writer is active, ReadFile returns either exactly s
\* or a not-found error, Delete returns no error, and the file is absent once
\* both have returned.
C18_DeleteReadRace ==
    \A r, d \in Procs :
        ( /\ call[r].op = "ReadFile"
          /\ call[d].op = "Delete"
          /\ ThePath \in DOMAIN old.files
          /\ AllReturned ) =>
            /\ \/ ret[r] = [err |-> NoError, data |-> old.files[ThePath]]
               \/ ret[r].err = ENOENT
            /\ ret[d].err = NoError
            /\ Lookup(dirs, files, ThePath) = ENOENT

\* the reader opened the file before it was unlinked, read it afterwards, and
\* still got its content
C18_Witness ==
    \E r, d \in Procs :
        /\ call[r].op = "ReadFile"
        /\ call[d].op = "Delete"
        /\ ThePath \in DOMAIN old.files
        /\ AllReturned
        /\ call[r].fd.open /\ ~call[r].fd.linked
        /\ ret[r] = [err |-> NoError, data |-> old.files[ThePath]]
        /\ ret[d].err = NoError
        /\ ThePath \notin DOMAIN files

(***************************************************************************)
(* Further claims about the provider.                                      *)
(***************************************************************************)
\* C19: a txt or zip resource Create whose location and name resolve outside
\* the base directory reports an error diagnostic, creates no file or
\* directory anywhere, and sets no state.
C19_EscapingCreateRejected ==
    ( /\ call.op \in {"txt.Create", "zip.Create"}
      /\ ~InsideBase(Resolved(baseDir, LocationOf(call.input.location),
                              ValueString(call.input.name)),
                     baseDir) ) =>
        /\ ret.err # NoError
        /\ dirs = old.dirs
        /\ files = old.files
        /\ StateOfCall = NoResource

\* C20: the txt resource's Read removes the resource from state only when the
\* file is not found; when ReadFile fails for any other reason the resource
\* stays in state and the failure is reported as an error; when ReadFile
\* succeeds only the data attribute is replaced by the file's content while
\* id, name and location are kept.
C20_ReadKeepsStateOnFailure ==
    call.op = "txt.Read" =>
        LET at == Lookup(old.dirs, old.files, ValueString(call.input.id))
        IN  /\ txtState = NoResource => at = ENOENT
            /\ at \notin {"file", ENOENT} =>
                   txtState = call.input /\ ret.err # NoError
            /\ at = "file" =>
                   /\ ret.err = NoError
                   /\ txtState =
                          [call.input EXCEPT
                              !.data = StringValue(old.files[ValueString(call.input.id)])]

\* nothing is at path p: neither a file nor a directory
NothingAt(d, f, p) == p \notin d /\ p \notin DOMAIN f

\* the walk to p is cut short by a regular file in the place of a directory
Blocked(f, p) == \E a \in Ancestors(p) : a \in DOMAIN f

\* C21: the zip resource's Read removes the resource from state exactly when
\* no file exists at the path in the state's id; when the file exists the
\* state is left unchanged; when the existence check fails for another reason
\* (the path runs through a regular file) an error diagnostic is reported and
\* the state is kept; when the state's id is empty nothing is done.  Read
\* never touches the filesystem.
C21_ZipReadRefresh ==
    call.op = "zip.Read" =>
        LET id == ValueString(call.input.id)
            missing == /\ id # <<>>
                       /\ NothingAt(old.dirs, old.files, id)
                       /\ ~Blocked(old.files, id)
        IN  /\ dirs = old.dirs /\ files = old.files
            /\ (zipState = NoResource) <=> missing
            /\ missing => ret.err = NoError
            /\ (id # <<>> /\ ~NothingAt(old.dirs, old.files, id)) =>
                   zipState = call.input /\ ret.err = NoError
            /\ (id # <<>> /\ Blocked(old.files, id)) =>
                   zipState = call.input /\ ret.err = "Error reading zip file"
            /\ id = <<>> => zipState = call.input /\ ret.err = NoError

\* a Read of a zip resource whose archive was removed from under it has
\* dropped the resource without a diagnostic
C21_Witness ==
    /\ call.op = "zip.Read"
    /\ ~call.input.src_data_file.null
    /\ NothingAt(old.dirs, old.files, ValueString(call.input.id))
    /\ zipState = NoResource
    /\ ret.err = NoError

\* the other cases of Read: an archive that is there, a path that runs
\* through a regular file, and an empty id
C21_Kept ==
    /\ call.op = "zip.Read"
    /\ ValueString(call.input.id) \in DOMAIN old.files
    /\ zipState = call.input

C21_Failed ==
    /\ call.op = "zip.Read"
    /\ Blocked(old.files, ValueString(call.input.id))
    /\ ret.err = "Error reading zip file"

C21_NoID ==
    /\ call.op = "zip.Read"
    /\ ValueString(call.input.id) = <<>>
    /\ zipState = call.input

\* C22: after a successful zip resource Create with source path s, name n and
\* location l, the archive at fullPath(l, n) holds exactly one entry, named by
\* the last path component of s, with the bytes of the file at s, and the new
\* state has id = fullPath(l, n), src_data_file = s, name = n and location = l
\* (empty when omitted).
C22_ZipCreateHoldsSource ==
    (call.op = "zip.Create" /\ ret.err = NoError) =>
        LET s == ValueString(call.input.src_data_file)
            n == ValueString(call.input.name)
            l == LocationOf(call.input.location)
            p == fullPath(baseDir, l, n)
        IN  /\ p.err = NoError
            /\ p.path \in DOMAIN files
            /\ s \in DOMAIN old.files
            /\ files[p.path] = Zip(<<Entry(Base(s), old.files[s])>>)
            /\ zipState = ZipModel(StringValue(p.path), StringValue(s),
                                   StringValue(n), StringValue(l))

\* the same, for a source that is not the archive's own path
C22_DistinctSource ==
    ( /\ call.op = "zip.Create"
      /\ ret.err = NoError
      /\ ValueString(call.input.src_data_file) # ValueString(zipState.id) ) =>
        C22_ZipCreateHoldsSource

\* a Create has zipped a source that lies elsewhere
C22_DistinctSourceZipped ==
    /\ call.op = "zip.Create"
    /\ ret.err = NoError
    /\ ValueString(call.input.src_data_file) # ValueString(zipState.id)
    /\ ValueString(call.input.src_data_file) \in DOMAIN old.files

C23_Escaping ==
    /\ call.op = "data.Read"
    /\ ret.err = "Invalid file path"
    /\ ret.state = NoResource

C23_Unreadable ==
    /\ call.op = "data.Read"
    /\ ret.err = "Error reading file"
    /\ ret.detail = EISDIR
    /\ ret.state = NoResource

====
